---- MODULE Spec2Model ----
(***************************************************************************)
(* A model of the roster pipeline of 1l-tools.py: PDFWriter (the external  *)
(* compiler orchestrator), RostersWriter.run (its driver),                 *)
(* Roster.set_groups (the random grouping), CodeGen (the LaTeX fragments   *)
(* and their sum) and MaybeOverwrite.maybe_overwrite (the output naming).  *)
(***************************************************************************)
EXTENDS Integers, Sequences, FiniteSets, TLC

VARIABLES
    which,            \* the compiler shutil.which finds: "tectonic", "pdflatex", "none"
    lab,              \* RostersWriter.lab
    code_generators,  \* RostersWriter.code_generators: the section of each CodeGen
    fs0,              \* the destination directory before the run: "absent", or "old" (it holds files)
    nwrites,          \* writer.write calls made so far by RostersWriter.run
    returned,         \* writer.write calls that have returned normally
    pc,               \* "run" (inside the with block), "clean" (inside clean), "done"
    ret,              \* the caller of the running clean: "write" (call_ext) or "exit" (__exit__)
    exc,              \* the exception in flight: "none", "SystemExit", "FileNotFoundError"
    it,               \* position of clean's loop in self.procs.items()
    procs,            \* PDFWriter.procs: insertion-ordered fname -> record
    jobs,             \* every launched compilation: process, pipe, scratch directory
    cwd,              \* the process working directory
    sequential,       \* PDFWriter.sequential
    destExists,       \* whether the destination directory exists
    destFiles,        \* the files of the destination directory: path -> owner
    last,             \* the last thing the orchestrator did: "init", "write" (a write
                      \* returned without collecting), "clean" (clean returned), "exit"
                      \* (the with block was left), "raise" (an exception was raised)
    students,         \* Roster.students
    groups,           \* Roster.groups
    rstate,           \* "new" (constructed), "grouped" (set_groups has run)
    frags,            \* three CodeGen objects: the operands of +
    op,               \* the operation applied to them and the number of operands it took
    result,           \* the CodeGen objects the operation returned
    fsys,             \* the paths at which a file exists
    calls             \* the maybe_overwrite calls made: path asked, inplace, path written

varsPDF == <<which, lab, code_generators, fs0, nwrites, returned, pc, ret, exc, it,
             procs, jobs, cwd, sequential, destExists, destFiles, last>>
varsRoster == <<students, groups, rstate>>
varsCodeGen == <<frags, op, result>>
varsPath == <<fsys, calls>>
vars == <<varsPDF, varsRoster, varsCodeGen, varsPath>>

----------------------------------------------------------------------------
(* Bounds of the model *)

MaxRosters == 2
MaxStudents == 36
FullShuffleMax == 4
MaxCalls == 3

\* the section numbers and the lab number the rosters are drawn from
Sections == {1, 2}
Labs == {3}

----------------------------------------------------------------------------
(* Names and paths *)

\* 'Lab {} Section {} Roster'.format(self.lab, codegen.section)
RosterName(l, s) == <<"Lab", l, "Section", s, "Roster">>

\* 'Lab {} Rosters (All)'.format(self.lab)
AllName(l) == <<"Lab", l, "Rosters (All)">>

\* parent = os.path.join(<rosters path or os.getcwd()>, 'Lab {} Blank Rosters')
ParentDir(l) == <<"Lab", l, "Blank Rosters">>

Names == {RosterName(l, s) : l \in Labs, s \in Sections} \cup {AllName(l) : l \in Labs}
Exts == {"tex", "log", "pdf"}
Paths == Names \X Exts

\* fname + '.pdf', fname + '.log', fname + '.tex'
File(fname, ext) == <<fname, ext>>

\* the files present in the destination directory before the run, when it has any
OldPaths == {File(AllName(l), e) : l \in Labs, e \in Exts}
              \cup {File(RosterName(l, 1), "pdf") : l \in Labs}

\* what a path of the destination directory holds: nothing, a file that was there before
\* the run, or the file that clean moved there from the scratch directory of job j
NoFile == <<"none">>
OldFile == <<"old">>
JobFile(j) == <<"job", j>>

\* os.getcwd() at construction: self.cwd
OrigDir == <<"orig">>
\* tempfile.TemporaryDirectory().name of the j-th job
TmpDir(j) == <<"tmp", j>>

\* how a compiler run can end: the markers its captured stdout contains, and the files
\* it leaves next to the source (pdflatex keeps a log, and in nonstopmode may produce a
\* pdf despite errors; tectonic keeps no log; diagnostics on stderr are discarded)
Outcomes ==
    { [out |-> {},        made |-> {"log", "pdf"}],
      [out |-> {},        made |-> {"pdf"}],
      [out |-> {},        made |-> {}],
      [out |-> {"Error"}, made |-> {"log", "pdf"}],
      [out |-> {"Error"}, made |-> {"log"}],
      [out |-> {"error"}, made |-> {"pdf"}],
      [out |-> {"error"}, made |-> {}] }

\* 'error' in stdout or 'Error' in stdout
HasError(stdout) == "error" \in stdout \/ "Error" \in stdout

----------------------------------------------------------------------------
(* PDFWriter.procs as an insertion-ordered dict *)

Keys(d) == {d[k].fname : k \in 1..Len(d)}

\* self.procs[fname] = {...}: a present key keeps its position, its value is replaced
DictPut(d, fname, j) ==
    IF fname \in Keys(d)
    THEN [k \in 1..Len(d) |-> IF d[k].fname = fname THEN [fname |-> fname, job |-> j] ELSE d[k]]
    ELSE Append(d, [fname |-> fname, job |-> j])

Referenced(j) == \E k \in 1..Len(procs) : procs[k].job = j

----------------------------------------------------------------------------
(* Initial states *)

InitPDF ==
    /\ which \in {"tectonic", "pdflatex", "none"}
    /\ lab \in Labs
    /\ code_generators \in UNION {[1..k -> Sections] : k \in 0..MaxRosters}
    /\ fs0 \in {"absent", "old"}
    /\ nwrites = 0
    /\ returned = 0
    /\ pc = "run"
    /\ ret = "exit"
    /\ exc = "none"
    /\ it = 1
    /\ procs = <<>>
    /\ jobs = <<>>
    /\ cwd = OrigDir
    /\ sequential = TRUE
    /\ destExists = (fs0 # "absent")
    /\ destFiles = [p \in Paths |-> IF fs0 = "old" /\ p \in OldPaths THEN OldFile ELSE NoFile]
    /\ last = "init"

InitRosterIdle ==
    /\ students = <<>>
    /\ groups = <<>>
    /\ rstate = "new"

\* an optional value: None, or the value it holds
None == <<>>
Some(x) == <<x>>

\* no CodeGen objects: the state of the other specifications
InitCodeGenIdle ==
    /\ frags = <<>>
    /\ op = <<"none", 0>>
    /\ result = <<>>

\* no file written through MaybeOverwrite: the state of the other specifications
InitPathIdle ==
    /\ fsys = {}
    /\ calls = <<>>

Init == InitPDF /\ InitRosterIdle /\ InitCodeGenIdle /\ InitPathIdle

----------------------------------------------------------------------------
(* PDFWriter.call_ext *)

\* the job created by call_ext: scratch directory holding the source, process launched.
\* stdout is the unread content of the pipe and output what the process wrote in all;
\* waited, handled, moved and cleaned record what clean has done with the job; collect
\* records whether the call_ext that launched it went on to clean, and made the files the
\* process left in the scratch directory
NewJob(fname, parent) ==
    [fname |-> fname, parent |-> parent, proc |-> "running", stdout |-> {}, output |-> {},
     waited |-> FALSE, tmp |-> TRUE, scratch |-> {File(fname, "tex")},
     handled |-> 0, moved |-> {}, cleaned |-> FALSE, collect |-> FALSE, made |-> {}]

\* a call_ext that collects after every launch, whatever self.sequential says
CollectsAlways(seq) == TRUE

\* if self.sequential: self.clean()
CollectsAfterLaunch(seq) == seq

\* a launch that changes the directory back once the process is started
DirAfterLaunchBack(j) == OrigDir

\* os.chdir(tmp_dir.name), the directory call_ext leaves the process in
DirAfterLaunch(j) == TmpDir(j)

call_ext(seq, parent, fname) ==
    LET j == Len(jobs) + 1 IN
    /\ jobs' = Append(jobs, [NewJob(fname, parent) EXCEPT !.collect = CollectsAfterLaunch(seq)])
    /\ cwd' = DirAfterLaunch(j)
    /\ procs' = DictPut(procs, fname, j)
    /\ IF CollectsAfterLaunch(seq)
       THEN /\ pc' = "clean"
            /\ ret' = "write"
            /\ it' = 1
            /\ returned' = returned
            /\ last' = last
       ELSE /\ pc' = "run"
            /\ returned' = returned + 1
            /\ last' = "write"
            /\ UNCHANGED <<ret, it>>

----------------------------------------------------------------------------
(* RostersWriter.run calling PDFWriter.write *)

\* the fname of the next write of run: one per roster, then the combined one
NextName ==
    IF nwrites < Len(code_generators)
    THEN RosterName(lab, code_generators[nwrites + 1])
    ELSE AllName(lab)

CanWrite == pc = "run" /\ nwrites <= Len(code_generators)

\* a write that leaves self.sequential as it is
SequentialKept == sequential

\* self.sequential = False
SequentialOff == FALSE

\* shutil.which('tectonic'): call_ext, then self.sequential = False
WriteTectonic ==
    /\ CanWrite
    /\ which = "tectonic"
    /\ nwrites' = nwrites + 1
    /\ destExists' = TRUE
    /\ call_ext(sequential, ParentDir(lab), NextName)
    /\ sequential' = IF CollectsAfterLaunch(sequential) THEN sequential ELSE SequentialOff
    /\ UNCHANGED <<which, lab, code_generators, fs0, exc, destFiles, varsRoster, varsCodeGen, varsPath>>

\* a pdflatex branch that clears self.sequential after call_ext, as the tectonic one does
WritePdflatexLate ==
    /\ CanWrite
    /\ which = "pdflatex"
    /\ nwrites' = nwrites + 1
    /\ destExists' = TRUE
    /\ call_ext(sequential, ParentDir(lab), NextName)
    /\ sequential' = IF CollectsAfterLaunch(sequential) THEN sequential ELSE FALSE
    /\ UNCHANGED <<which, lab, code_generators, fs0, exc, destFiles, varsRoster, varsCodeGen, varsPath>>

\* shutil.which('pdflatex'): self.sequential = False, then call_ext
WritePdflatex ==
    /\ CanWrite
    /\ which = "pdflatex"
    /\ nwrites' = nwrites + 1
    /\ destExists' = TRUE
    /\ sequential' = FALSE
    /\ call_ext(FALSE, ParentDir(lab), NextName)
    /\ UNCHANGED <<which, lab, code_generators, fs0, exc, destFiles, varsRoster, varsCodeGen, varsPath>>

\* neither found: sys.exit(...) after os.makedirs; the with block runs __exit__
WriteAbort ==
    /\ CanWrite
    /\ which = "none"
    /\ nwrites' = nwrites + 1
    /\ destExists' = TRUE
    /\ exc' = "SystemExit"
    /\ pc' = "clean"
    /\ ret' = "exit"
    /\ it' = 1
    /\ last' = "raise"
    /\ UNCHANGED <<which, lab, code_generators, fs0, returned, procs, jobs, cwd,
                   sequential, destFiles, varsRoster, varsCodeGen, varsPath>>

\* the with block of run ends after the combined write: __exit__ calls clean
ExitScope ==
    /\ pc = "run"
    /\ nwrites = Len(code_generators) + 1
    /\ pc' = "clean"
    /\ ret' = "exit"
    /\ it' = 1
    /\ last' = "exit"
    /\ UNCHANGED <<which, lab, code_generators, fs0, nwrites, returned, exc, procs, jobs,
                   cwd, sequential, destExists, destFiles, varsRoster, varsCodeGen, varsPath>>

----------------------------------------------------------------------------
(* The external compiler processes and the garbage collector *)

\* a launched compiler exits, its stdout captured in the pipe, its files in the scratch
\* directory
ProcExit(j) ==
    /\ pc # "done"
    /\ jobs[j].proc = "running"
    /\ \E o \in Outcomes :
          LET made == {File(jobs[j].fname, e) : e \in o.made}
          IN jobs' = [jobs EXCEPT ![j].proc = "exited",
                                  ![j].stdout = o.out,
                                  ![j].output = o.out,
                                  ![j].made = IF jobs[j].tmp THEN o.made ELSE {},
                                  ![j].scratch = IF jobs[j].tmp THEN @ \cup made ELSE @]
    /\ UNCHANGED <<which, lab, code_generators, fs0, nwrites, returned, pc, ret, exc, it,
                   procs, cwd, sequential, destExists, destFiles, last, varsRoster, varsCodeGen, varsPath>>

CompilerExits == \E j \in 1..Len(jobs) : ProcExit(j)

\* a TemporaryDirectory object no record of self.procs refers to is finalized at a time
\* the interpreter chooses: its directory is removed
Finalize(j) ==
    /\ pc # "done"
    /\ ~Referenced(j)
    /\ jobs[j].tmp
    /\ jobs' = [jobs EXCEPT ![j].tmp = FALSE, ![j].scratch = {}]
    /\ UNCHANGED <<which, lab, code_generators, fs0, nwrites, returned, pc, ret, exc, it,
                   procs, cwd, sequential, destExists, destFiles, last, varsRoster, varsCodeGen, varsPath>>

GarbageCollect == \E j \in 1..Len(jobs) : Finalize(j)

----------------------------------------------------------------------------
(* PDFWriter.clean *)

\* shutil.move(os.path.join(tmp.name, f), os.path.join(parent, f)): the destination
\* path is written whether or not a file is there already
Move(dest, fname, ext, j) == [dest EXCEPT ![File(fname, ext)] = JobFile(j)]

\* the job record after its file of extension ext has left the scratch directory
Moved(r, ext) == [r EXCEPT !.scratch = @ \ {File(r.fname, ext)}, !.moved = @ \cup {ext}]

\* the failure branch: the log, then the source, no cleanup
FailureBranch(j, r, dest) ==
    IF File(r.fname, "log") \notin r.scratch
    THEN [job |-> r, dest |-> dest, raised |-> TRUE]
    ELSE LET r2 == Moved(r, "log")
             d2 == Move(dest, r.fname, "log", j)
         IN IF File(r.fname, "tex") \notin r2.scratch
            THEN [job |-> r2, dest |-> d2, raised |-> TRUE]
            ELSE [job |-> Moved(r2, "tex"), dest |-> Move(d2, r.fname, "tex", j),
                  raised |-> FALSE]

\* the success branch: the pdf, then tmp.cleanup()
SuccessBranch(j, r, dest) ==
    IF File(r.fname, "pdf") \notin r.scratch
    THEN [job |-> r, dest |-> dest, raised |-> TRUE]
    ELSE [job |-> [Moved(r, "pdf") EXCEPT !.tmp = FALSE, !.scratch = {}, !.cleaned = TRUE],
          dest |-> Move(dest, r.fname, "pdf", j), raised |-> FALSE]

\* one iteration of the loop of clean over record (fname, info) of job j: chdir, wait,
\* read the pipe to its end, classify
LoopBody(j, r, dest) ==
    IF ~r.tmp
    THEN [job |-> r, dest |-> dest, raised |-> TRUE]
    ELSE LET stdout == r.stdout
             r1 == [r EXCEPT !.waited = TRUE, !.stdout = {}, !.handled = @ + 1]
         IN IF HasError(stdout)
            THEN FailureBranch(j, r1, dest)
            ELSE SuccessBranch(j, r1, dest)

\* an exception leaves clean: out of write it reaches the with block, whose __exit__
\* calls clean again; out of __exit__ it ends run
Raise ==
    /\ exc' = "FileNotFoundError"
    /\ last' = "raise"
    /\ IF ret = "write"
       THEN pc' = "clean" /\ ret' = "exit" /\ it' = 1
       ELSE pc' = "done" /\ UNCHANGED <<ret, it>>

\* a look at the process that does not wait for it
poll(r) == TRUE

\* info['proc'].wait() returns once the process has exited
wait(r) == r.proc = "exited" \/ ~r.tmp

\* the loop of clean reaches its next record
CleanRecord ==
    /\ pc = "clean"
    /\ it <= Len(procs)
    /\ LET j == procs[it].job
           res == LoopBody(j, jobs[j], destFiles)
       IN /\ wait(jobs[j])
          /\ jobs' = [jobs EXCEPT ![j] = res.job]
          /\ destFiles' = res.dest
          /\ cwd' = IF jobs[j].tmp THEN TmpDir(j) ELSE cwd
          /\ IF res.raised
             THEN Raise
             ELSE it' = it + 1 /\ UNCHANGED <<pc, ret, exc, last>>
    /\ UNCHANGED <<which, lab, code_generators, fs0, nwrites, returned, procs,
                   sequential, destExists, varsRoster, varsCodeGen, varsPath>>

\* a clean that does not change the directory back
RestoredDirLost == cwd

\* os.chdir(self.cwd)
RestoredDir == OrigDir

\* a clean that keeps its records
ProcsKept == procs

\* self.procs = dict()
ProcsCleared == <<>>

\* after the loop: self.procs = dict(); os.chdir(self.cwd); back in the caller
CleanReturn ==
    /\ pc = "clean"
    /\ it > Len(procs)
    /\ procs' = ProcsCleared
    /\ cwd' = RestoredDir
    /\ last' = "clean"
    /\ IF ret = "write"
       THEN pc' = "run" /\ returned' = returned + 1 /\ sequential' = SequentialOff
       ELSE pc' = "done" /\ UNCHANGED <<returned, sequential>>
    /\ UNCHANGED <<which, lab, code_generators, fs0, nwrites, ret, exc, it, jobs,
                   destExists, destFiles, varsRoster, varsCodeGen, varsPath>>

----------------------------------------------------------------------------
(* Roster.set_groups *)

Min(a, b) == IF a < b THEN a ELSE b

\* random.shuffle(self.students): every permutation of a short list; of a longer one,
\* its rotations and their reversals
Shuffles(n) ==
    IF n <= FullShuffleMax
    THEN {p \in [1..n -> 1..n] : \A a, b \in 1..n : p[a] = p[b] => a = b}
    ELSE {[i \in 1..n |-> ((i - 1 + k) % n) + 1] : k \in 0..(n - 1)}
           \cup {[i \in 1..n |-> ((n - i + k) % n) + 1] : k \in 0..(n - 1)}

\* a group count without the cap of 6
ngroupsUncapped(n) == (n \div 5) + (IF n % 5 = 0 THEN 0 ELSE 1)

\* ngroups = min(6, n // 5 + (0 if n % 5 == 0 else 1))
ngroups(n) == Min(6, (n \div 5) + (IF n % 5 = 0 THEN 0 ELSE 1))

\* a deal that starts at the last group and goes down
RECURSIVE DealFromLast(_, _, _, _)
DealFromLast(g, studs, i, ng) ==
    IF i > Len(studs) \/ ng = 0
    THEN g
    ELSE LET group == ng - 1 - ((i - 1) % ng)
         IN DealFromLast([g EXCEPT ![group + 1] = Append(@, studs[i])], studs, i + 1, ng)

\* a deal that stops one student short
RECURSIVE DealStopsShort(_, _, _, _)
DealStopsShort(g, studs, i, ng) ==
    IF i >= Len(studs) \/ ng = 0
    THEN g
    ELSE LET group == (i - 1) % ng
         IN DealStopsShort([g EXCEPT ![group + 1] = Append(@, studs[i])], studs, i + 1, ng)

\* for group, student in zip(itertools.cycle(range(ngroups)), self.students):
\*     self.groups[group + 1].append(student)
RECURSIVE Deal(_, _, _, _)
Deal(g, studs, i, ng) ==
    IF i > Len(studs) \/ ng = 0
    THEN g
    ELSE LET group == (i - 1) % ng
         IN Deal([g EXCEPT ![group + 1] = Append(@, studs[i])], studs, i + 1, ng)

\* self.groups = {i + 1: [] for i in range(ngroups)}
EmptyGroups(ng) == [i \in 1..ng |-> <<>>]

set_groups ==
    /\ rstate = "new"
    /\ LET n == Len(students) IN
       \E p \in Shuffles(n) :
          LET shuffled == [i \in 1..n |-> students[p[i]]] IN
          /\ students' = shuffled
          /\ groups' = Deal(EmptyGroups(ngroups(n)), shuffled, 1, ngroups(n))
    /\ rstate' = "grouped"
    /\ UNCHANGED <<varsPDF, varsCodeGen, varsPath>>

\* Roster(section, students): a list of N distinct students, not yet grouped
InitRoster ==
    /\ students \in {[i \in 1..n |-> i] : n \in 0..MaxStudents}
    /\ groups = <<>>
    /\ rstate = "new"

\* the orchestrator before any run, for the specification of the roster alone
InitPDFIdle ==
    /\ InitPDF
    /\ which = "none"
    /\ code_generators = <<>>
    /\ fs0 = "absent"

InitGroups == InitPDFIdle /\ InitRoster /\ InitCodeGenIdle /\ InitPathIdle

NextGroups == set_groups

SpecGroups == InitGroups /\ [][NextGroups]_vars

----------------------------------------------------------------------------
(* CodeGen: the LaTeX fragments of the sections and their sum *)

\* the section numbers keying the fragments, the line lists a section can hold, and the
\* lab numbers and checkpoint lists a CodeGen can carry (None for one made by mempty or
\* from_code)
FragSections == {1, 2, 3}
LineLists == {<<"begin", "end">>, <<"begin", "row", "end">>}
OptLabs == {None, Some(3), Some(4)}
OptCheckpoints == {None, Some(<<"1", "2">>)}

\* dict()
EmptyDict == [s \in {} |-> <<>>]

\* {**a, **b}
Merge(a, b) ==
    [s \in DOMAIN a \cup DOMAIN b |-> IF s \in DOMAIN b THEN b[s] ELSE a[s]]

\* CodeGen.from_code(code, lab, checkpoints)
from_code(code, l, checkpoints) ==
    [code |-> code, lab |-> l, checkpoints |-> checkpoints]

\* CodeGen.mempty(): cls(None, None, None)
mempty == from_code(EmptyDict, None, None)

\* CodeGen(roster, lab, checkpoints) for a roster of the given section, lines being what
\* section_codegen generates for it
CodeGen(section, lines, l, checkpoints) ==
    from_code(Merge(EmptyDict, section :> lines), Some(l), Some(checkpoints))

\* a sum that takes the checkpoints of the wrong operand
AddMixedUp(self, other) ==
    from_code(Merge(self.code, other.code),
              IF self.lab # None THEN self.lab ELSE other.lab,
              IF self.lab = None THEN self.checkpoints ELSE other.checkpoints)

\* a sum that keeps its own lab, None included
AddKeepsOwnLab(self, other) ==
    from_code(Merge(self.code, other.code),
              self.lab,
              IF self.checkpoints # None THEN self.checkpoints ELSE other.checkpoints)

\* a sum that keeps the sections of the right operand only
AddDropsSelf(self, other) ==
    from_code(other.code,
              IF self.lab # None THEN self.lab ELSE other.lab,
              IF self.checkpoints # None THEN self.checkpoints ELSE other.checkpoints)

\* CodeGen.__add__
__add__(self, other) ==
    from_code(Merge(self.code, other.code),
              IF self.lab # None THEN self.lab ELSE other.lab,
              IF self.checkpoints # None THEN self.checkpoints ELSE other.checkpoints)

\* sum(iterable, start): start + iterable[0] + iterable[1] + ...
RECURSIVE sum(_, _)
sum(iterable, start) ==
    IF iterable = <<>>
    THEN start
    ELSE sum(Tail(iterable), __add__(start, Head(iterable)))

\* the objects add_roster makes for one RostersWriter: one section each, and the lab and
\* the checkpoints of the writer
BuiltByAddRoster(gens) ==
    \E l \in {3, 4}, checkpoints \in {<<"1", "2">>} :
        \A i \in 1..Len(gens) :
            \E section \in FragSections, lines \in LineLists :
                gens[i] = CodeGen(section, lines, l, checkpoints)

\* three CodeGen objects with pairwise disjoint sections
InitCodeGen ==
    /\ \E owner \in [FragSections -> 0..3], lines \in [FragSections -> LineLists],
          labs \in [1..3 -> OptLabs], cps \in [1..3 -> OptCheckpoints] :
          frags = [i \in 1..3 |->
                      from_code([s \in {t \in FragSections : owner[t] = i} |-> lines[s]],
                                labs[i], cps[i])]
    /\ op = <<"none", 0>>
    /\ result = <<>>

\* (frags[1] + frags[2]) + frags[3] and frags[1] + (frags[2] + frags[3])
AddThree ==
    /\ op = <<"none", 0>>
    /\ op' = <<"three", 3>>
    /\ result' = <<__add__(__add__(frags[1], frags[2]), frags[3]),
                   __add__(frags[1], __add__(frags[2], frags[3]))>>
    /\ UNCHANGED <<frags, varsPDF, varsRoster, varsPath>>

\* frags[1] + CodeGen.mempty() and CodeGen.mempty() + frags[1]
AddMempty ==
    /\ op = <<"none", 0>>
    /\ op' = <<"mempty", 1>>
    /\ result' = <<__add__(frags[1], mempty), __add__(mempty, frags[1])>>
    /\ UNCHANGED <<frags, varsPDF, varsRoster, varsPath>>

\* RostersWriter.run: codegen = sum(self.code_generators, CodeGen.mempty()), the
\* generators being the first n of frags
SumAll ==
    /\ op = <<"none", 0>>
    /\ \E n \in 0..3 :
          /\ BuiltByAddRoster(SubSeq(frags, 1, n))
          /\ op' = <<"sum", n>>
          /\ result' = <<sum(SubSeq(frags, 1, n), mempty)>>
    /\ UNCHANGED <<frags, varsPDF, varsRoster, varsPath>>

InitFragments == InitPDFIdle /\ InitRosterIdle /\ InitCodeGen /\ InitPathIdle

NextFragments == AddThree \/ AddMempty \/ SumAll

SpecFragments == InitFragments /\ [][NextFragments]_vars

----------------------------------------------------------------------------
(* MaybeOverwrite.maybe_overwrite *)

\* A path is the sequence of its pieces, a piece starting with a dot being written with
\* its dot. The paths the callers ask for, which are also the files that may exist before:
\* a name with an extension, that name with a counter, a name with two dots, a dot file.
Suffixes == {".xlsx", ".gz", ".tar", ".csv"}
AskedPaths ==
    {<<"sheet", ".xlsx">>, <<"sheet", "(", "1", ")", ".xlsx">>,
     <<"grades", ".tar", ".gz">>, <<".csv">>}

\* os.path.splitext: the extension is the last piece when it starts with a dot and is not
\* the whole name
splitext(fpath) ==
    LET n == Len(fpath)
    IN IF n > 1 /\ fpath[n] \in Suffixes
       THEN <<SubSeq(fpath, 1, n - 1), <<fpath[n]>>>>
       ELSE <<fpath, <<>>>>

\* '{}'.format(i) for the counters the runs reach
str(i) == <<"1", "2", "3", "4", "5", "6", "7", "8", "9">>[i]

\* a name that puts the counter after the extension
alt_path_after_ext(prefix, i, ext) == prefix \o ext \o <<"(", str(i), ")">>

\* alt_path = '{}({}){}'.format(prefix, i, ext)
alt_path(prefix, i, ext) == prefix \o <<"(", str(i), ")">> \o ext

\* for i in itertools.count(1): ... if not os.path.exists(alt_path): ... break
RECURSIVE count(_, _, _, _)
count(prefix, ext, exists, i) ==
    IF alt_path(prefix, i, ext) \notin exists
    THEN alt_path(prefix, i, ext)
    ELSE count(prefix, ext, exists, i + 1)

\* maybe_overwrite(fpath, inplace): the path is resolved and write_to_path puts the file
\* there
maybe_overwrite ==
    /\ Len(calls) < MaxCalls
    /\ \E fpath \in AskedPaths, inplace \in BOOLEAN :
          LET sp == splitext(fpath)
              target == IF fpath \in fsys /\ ~inplace
                        THEN count(sp[1], sp[2], fsys, 1)
                        ELSE fpath
          IN /\ fsys' = fsys \cup {target}
             /\ calls' = Append(calls, [fpath |-> fpath, inplace |-> inplace,
                                        before |-> fsys, written |-> target])
    /\ UNCHANGED <<varsPDF, varsRoster, varsCodeGen>>

\* the files on disk before the first call
InitPath ==
    /\ fsys \in SUBSET AskedPaths
    /\ calls = <<>>

InitPaths == InitPDFIdle /\ InitRosterIdle /\ InitCodeGenIdle /\ InitPath

NextPaths == maybe_overwrite

SpecPaths == InitPaths /\ [][NextPaths]_vars

----------------------------------------------------------------------------
Next ==
    \/ WriteTectonic
    \/ WritePdflatex
    \/ WriteAbort
    \/ ExitScope
    \/ CompilerExits
    \/ GarbageCollect
    \/ CleanRecord
    \/ CleanReturn

Spec == Init /\ [][Next]_vars

----------------------------------------------------------------------------
(* Properties of the orchestrator, checked under Spec *)

JobIds == 1..Len(jobs)

\* the jobs launched and not yet waited on by a clean
Outstanding == {j \in JobIds : ~jobs[j].waited}

\* every write that RostersWriter.run makes has returned
AllWritesReturned == returned = Len(code_generators) + 1

\* C1 as stated: with tectonic found, the mode is fully sequential: at no point is more
\* than one compilation job launched and not yet collected.
C1_FullySequential ==
    which = "tectonic" => Cardinality(Outstanding) <= 1

\* C1 amended: with tectonic found, only the first submit collects before it returns;
\* between submits the jobs not yet collected are exactly those of the second and later
\* submits.
C1_OnlyFirstSubmitCollects ==
    (which = "tectonic" /\ pc = "run") => Outstanding = {j \in JobIds : j >= 2}

C1_Witness ==
    /\ which = "tectonic"
    /\ pc = "run"
    /\ Len(jobs) = 3
    /\ jobs[1].waited
    /\ Outstanding = {2, 3}

\* C2 as stated: in RostersWriter.run no clean waits on a process until the last
\* writer.write has returned, whichever compiler is found.
C2_SubmitsBeforeCollect ==
    \A j \in JobIds : jobs[j].waited => AllWritesReturned

\* C2 amended: with pdflatex found no clean waits on a process until the last writer.write
\* has returned; with tectonic found the only job waited on earlier is the one of the first
\* write.
C2_SubmitsBeforeCollectPdflatex ==
    \A j \in JobIds :
        (jobs[j].waited /\ ~AllWritesReturned) => (which = "tectonic" /\ j = 1)

C2_Witness ==
    /\ which = "pdflatex"
    /\ Len(code_generators) = 2
    /\ AllWritesReturned
    /\ \A j \in 1..3 : jobs[j].waited

\* C3: relocating a result into the destination directory never replaces a file that
\* already exists there.
C3_NoClobber ==
    \A p \in Paths : (fs0 = "old" /\ p \in OldPaths) => destFiles[p] = OldFile

\* C4: a failed job never raises an exception out of clean and never prevents the other
\* retained jobs from being waited on.
C4_FailuresIsolated ==
    /\ exc # "FileNotFoundError"
    /\ pc = "done" => \A k \in 1..Len(procs) : jobs[procs[k].job].waited

\* C5: after every exit from the with block, normal or by exception, no launched process
\* is left un-waited and no retained record remains.
C5_ScopeExitCollectsAll ==
    pc = "done" => (procs = <<>> /\ Outstanding = {})

\* C6: whenever clean returns, the retained-record set is empty and the working directory
\* is the one captured at construction.
C6_CleanRestores ==
    last = "clean" => (procs = <<>> /\ cwd = OrigDir)

C6_Witness ==
    /\ last = "clean"
    /\ \E a, b \in JobIds :
          /\ jobs[a].cleaned
          /\ jobs[b].moved = {"log", "tex"}

\* C7: a job whose captured stdout contains "error" or "Error" has, once clean has handled
\* it, its log and source relocated, no pdf relocated, and its scratch directory not
\* deleted by clean.
C7_FailureRelocatesLogAndSource ==
    \A j \in JobIds :
        (jobs[j].handled >= 1 /\ HasError(jobs[j].output)) =>
            (jobs[j].moved = {"log", "tex"} /\ ~jobs[j].cleaned)

\* C8: a job whose captured stdout contains neither marker has, once clean has handled it,
\* its pdf in the destination directory and its scratch directory deleted.
C8_SuccessRelocatesArtifact ==
    \A j \in JobIds :
        (jobs[j].handled >= 1 /\ ~HasError(jobs[j].output)) =>
            /\ "pdf" \in jobs[j].moved
            /\ destFiles[File(jobs[j].fname, "pdf")] # NoFile
            /\ ~jobs[j].tmp

\* C9: with no compiler available, write aborts before any work: no job, no record, and
\* nothing created on the filesystem.
C9_AbortBeforeAnyWork ==
    which = "none" =>
        (jobs = <<>> /\ procs = <<>> /\ destExists = (fs0 # "absent"))

----------------------------------------------------------------------------
(* Properties of the grouping, checked under SpecGroups *)

\* ceil(n / 5), from its definition
Ceil5(n) == CHOOSE c \in 0..n : 5 * c >= n /\ 5 * (c - 1) < n

NGroups == Cardinality(DOMAIN groups)

\* C10 as stated: N students give min(6, ceil(N/5)) groups when N mod 5 is not 0, and N/5
\* groups when N is a multiple of 5.
C10_GroupCount ==
    rstate = "grouped" =>
        LET N == Len(students) IN
        NGroups = IF N % 5 # 0 THEN Min(6, Ceil5(N)) ELSE N \div 5

\* C10 amended: N students give min(6, ceil(N/5)) groups, a multiple of 5 included; N = 0
\* gives no group.
C10_GroupCountCapped ==
    rstate = "grouped" => NGroups = Min(6, Ceil5(Len(students)))

C10_Witness ==
    /\ rstate = "grouped"
    /\ Len(students) = 35
    /\ NGroups = 6

\* the places of the groups: group number and position in the group
Places == UNION {{<<g, i>> : i \in 1..Len(groups[g])} : g \in DOMAIN groups}

\* C11: after set_groups every student of the list is in exactly one group, no group holds
\* anyone else, and the group numbers are exactly 1..G.
C11_Partition ==
    rstate = "grouped" =>
        LET N == Len(students) IN
        /\ DOMAIN groups = 1..NGroups
        /\ \A pl \in Places : groups[pl[1]][pl[2]] \in 1..N
        /\ \A st \in 1..N :
              Cardinality({pl \in Places : groups[pl[1]][pl[2]] = st}) = 1

C11_Witness ==
    /\ rstate = "grouped"
    /\ Len(students) = 23
    /\ NGroups = 5
    /\ Cardinality(Places) = 23

\* C12: for a non-empty student list every group has no fewer than 4 students.
C12_NoGroupBelowFour ==
    (rstate = "grouped" /\ Len(students) > 0) =>
        \A g \in DOMAIN groups : Len(groups[g]) >= 4

----------------------------------------------------------------------------
(* Properties of the fragments, checked under SpecFragments *)

\* the sections of the three operands are pairwise disjoint
DisjointSections ==
    \A i, j \in 1..3 : i # j => DOMAIN frags[i].code \cap DOMAIN frags[j].code = {}

\* C13: for fragments A, B, C with pairwise disjoint sections, (A + B) + C and A + (B + C)
\* have the same keyed content, the same lab and the same checkpoints.
C13_Associative ==
    (op = <<"three", 3>> /\ DisjointSections) =>
        /\ result[1].code = result[2].code
        /\ result[1].lab = result[2].lab
        /\ result[1].checkpoints = result[2].checkpoints

C13_Witness ==
    /\ op = <<"three", 3>>
    /\ DisjointSections
    /\ \A i \in 1..3 : DOMAIN frags[i].code # {}
    /\ frags[1].lab # None /\ frags[1].checkpoints = None
    /\ frags[2].lab = None /\ frags[2].checkpoints # None
    /\ frags[3].checkpoints = None
    /\ DOMAIN result[1].code = FragSections
    /\ result[1].checkpoints = frags[2].checkpoints

\* C14: CodeGen.mempty() is a two-sided identity: A + mempty() and mempty() + A both have
\* the content, the lab and the checkpoints of A.
C14_Identity ==
    op = <<"mempty", 1>> =>
        \A i \in 1..2 :
            /\ result[i].code = frags[1].code
            /\ result[i].lab = frags[1].lab
            /\ result[i].checkpoints = frags[1].checkpoints

C14_Witness ==
    /\ op = <<"mempty", 1>>
    /\ Cardinality(DOMAIN frags[1].code) = 2
    /\ frags[1].lab = Some(4)
    /\ frags[1].checkpoints # None
    /\ result[2] = frags[1]

\* C15: the fragment RostersWriter.run sums from the generators of rosters with distinct
\* sections holds exactly one key per roster section, and under each key the lines of the
\* generator built for that roster alone.
C15_AllSections ==
    (op[1] = "sum" /\ DisjointSections) =>
        LET gens == SubSeq(frags, 1, op[2])
            all == result[1].code
        IN /\ DOMAIN all = UNION {DOMAIN gens[i].code : i \in 1..Len(gens)}
           /\ Cardinality(DOMAIN all) = Len(gens)
           /\ \A i \in 1..Len(gens) :
                 \A section \in DOMAIN gens[i].code : all[section] = gens[i].code[section]

C15_Witness ==
    /\ op = <<"sum", 3>>
    /\ DisjointSections
    /\ DOMAIN result[1].code = FragSections
    /\ \E s, t \in FragSections : result[1].code[s] # result[1].code[t]
    /\ frags[2].code = (1 :> <<"begin", "row", "end">>)

----------------------------------------------------------------------------
(* Properties of maybe_overwrite, checked under SpecPaths *)

\* the path with the counter k put immediately before its extension
WithCounter(fpath, k) ==
    LET n == Len(fpath)
        kk == <<"(", str(k), ")">>
    IN IF n > 1 /\ fpath[n] \in Suffixes
       THEN SubSeq(fpath, 1, n - 1) \o kk \o <<fpath[n]>>
       ELSE fpath \o kk

\* C16: maybe_overwrite writes to the path itself when inplace is true or no file exists
\* there; otherwise it writes to the path with the smallest counter i >= 1, put immediately
\* before the extension, at which no file exists. With inplace false it never writes to a path
\* that already exists.
C16_FirstFreeName ==
    \A c \in 1..Len(calls) :
        LET call == calls[c] IN
        /\ (call.inplace \/ call.fpath \notin call.before) => call.written = call.fpath
        /\ (~call.inplace /\ call.fpath \in call.before) =>
              \E k \in 1..9 :
                  /\ call.written = WithCounter(call.fpath, k)
                  /\ \A m \in 1..(k - 1) : WithCounter(call.fpath, m) \in call.before
        /\ ~call.inplace => call.written \notin call.before

C16_Witness ==
    \E c \in 1..Len(calls) :
        /\ ~calls[c].inplace
        /\ calls[c].fpath = <<"sheet", ".xlsx">>
        /\ {<<"sheet", ".xlsx">>, <<"sheet", "(", "1", ")", ".xlsx">>} \subseteq calls[c].before
        /\ calls[c].written = <<"sheet", "(", "2", ")", ".xlsx">>

----------------------------------------------------------------------------
(* Properties of the orchestrator's jobs, checked under Spec *)

\* the rosters added have distinct sections
DistinctSections ==
    \A i, j \in 1..Len(code_generators) :
        i # j => code_generators[i] # code_generators[j]

\* C17: for k rosters with distinct sections and a compiler installed, by the time run is
\* over it has submitted exactly k + 1 jobs: one 'Lab N Section S Roster' per roster in the
\* order added, then 'Lab N Rosters (All)', all for the same destination directory.
C17_SubmitsAllInOrder ==
    (pc = "done" /\ which # "none" /\ DistinctSections) =>
        LET k == Len(code_generators) IN
        /\ Len(jobs) = k + 1
        /\ \A i \in 1..k : jobs[i].fname = RosterName(lab, code_generators[i])
        /\ jobs[k + 1].fname = AllName(lab)
        /\ \A i \in 1..(k + 1) : jobs[i].parent = ParentDir(lab)

\* C18 as stated: the mode is fixed by the first submit: every later write collects before
\* it returns if and only if the first one did.
C18_ModeFixedByFirst ==
    \A j \in JobIds : jobs[j].collect = jobs[1].collect

\* C18: only the first write can collect before it returns, and it does exactly when the
\* compiler found is tectonic; no later write does, whatever the first one did.
C18_OnlyFirstCanCollect ==
    /\ \A j \in JobIds : jobs[j].collect = (j = 1 /\ which = "tectonic")
    /\ returned >= 1 => ~sequential

C18_Witness ==
    /\ which = "tectonic"
    /\ Len(jobs) = 3
    /\ jobs[1].collect /\ jobs[1].handled = 1
    /\ ~jobs[2].collect /\ ~jobs[3].collect
    /\ pc = "run" /\ returned = 3
    /\ jobs[2].handled = 0 /\ jobs[3].handled = 0

ExpectedMoved(r) ==
    IF HasError(r.output)
    THEN IF "log" \in r.made THEN {"log", "tex"}
         ELSE IF r.handled > 1 /\ "pdf" \in r.made THEN {"pdf"} ELSE {}
    ELSE IF "pdf" \in r.made THEN {"pdf"} ELSE {}

\* the first handling of the job does not raise
Handles(r) == IF HasError(r.output) THEN "log" \in r.made ELSE "pdf" \in r.made

\* C20: for jobs with distinct base names, the files in the destination and the scratch
\* directories deleted by clean are determined by what each process wrote and left, job by
\* job in the order submitted, and so are the same for every order in which the processes
\* finish.
C20_OrderIndependent ==
    DistinctSections =>
        /\ \A j \in JobIds :
              LET r == jobs[j] IN
              r.handled >= 1 =>
                  /\ r.moved = ExpectedMoved(r)
                  /\ r.cleaned = ("pdf" \in ExpectedMoved(r))
                  /\ \A e \in Exts :
                        (destFiles[File(r.fname, e)] = JobFile(j)) = (e \in ExpectedMoved(r))
        /\ pc = "done" =>
              \A j \in JobIds :
                  (jobs[j].handled >= 1) = (\A i \in 1..(j - 1) : Handles(jobs[i]))

C20_Witness ==
    /\ which = "pdflatex"
    /\ DistinctSections
    /\ Len(jobs) = 3
    /\ pc = "clean"
    /\ jobs[1].handled = 1 /\ jobs[1].moved = {"pdf"} /\ jobs[1].cleaned
    /\ jobs[2].proc = "running"
    /\ jobs[3].proc = "exited"

----------------------------------------------------------------------------
(* More properties of the grouping, checked under SpecGroups *)

\* C21: set_groups deals the shuffled list cyclically: the student at shuffled position i
\* (0-based) is in group (i mod G) + 1, in the order dealt; so the sizes of two groups differ
\* by at most one and the larger groups are the lowest-numbered (23 students: 5,5,5,4,4).
C21_CyclicDeal ==
    rstate = "grouped" =>
        LET N == Len(students)
            G == NGroups
        IN /\ \A i \in 0..(N - 1) :
                 LET g == (i % G) + 1
                     pos == (i \div G) + 1
                 IN pos <= Len(groups[g]) /\ groups[g][pos] = students[i + 1]
           /\ \A g, h \in DOMAIN groups :
                 g < h => Len(groups[g]) - Len(groups[h]) \in {0, 1}
           /\ N = 23 => [g \in DOMAIN groups |-> Len(groups[g])] = <<5, 5, 5, 4, 4>>

C21_Witness ==
    /\ rstate = "grouped"
    /\ Len(students) = 23
    /\ students[1] = 4 /\ students[6] = 9
    /\ groups[1] = <<4, 9, 14, 19, 1>>
    /\ Len(groups[4]) = 4

----------------------------------------------------------------------------
(* More properties of the orchestrator, checked under Spec *)

\* C22: every process launched by a write is waited on by a later clean and its scratch
\* directory handled there, also when two writes made before the same clean use the same
\* base name: once run is over without an exception no launched process is left unwaited.
C22_EveryProcessWaited ==
    (pc = "done" /\ exc = "none") =>
        \A j \in JobIds : jobs[j].waited /\ jobs[j].handled >= 1


\* a write or a clean has returned to run, or the clean of __exit__ has returned
OperationReturned == pc = "run" \/ (pc = "done" /\ last = "clean")

\* C23: after an operation returns, the working directory is the original directory exactly
\* when no record is retained; after a write that does not collect it is the scratch
\* directory of the job just submitted, and os.makedirs of a later write made before the next
\* clean runs with that scratch directory as working directory.
C23_DirectoryFollowsRecords ==
    /\ [](OperationReturned =>
            /\ (cwd = OrigDir) = (procs = <<>>)
            /\ procs # <<>> => cwd = TmpDir(Len(jobs)))
    /\ [][(nwrites' = nwrites + 1 /\ procs # <<>>) =>
            /\ destExists'
            /\ cwd = TmpDir(Len(jobs))
            /\ jobs[Len(jobs)].tmp]_vars

C23_Witness ==
    /\ which = "pdflatex"
    /\ pc = "run"
    /\ nwrites = 3 /\ returned = 3
    /\ Len(procs) = 3
    /\ cwd = TmpDir(3)
    /\ destExists

====
